---- MODULE Spec2Model ----
(***************************************************************************)
(* Model of the BusTub buffer pool: BufferPoolManagerInstance              *)
(* (src/src/buffer/buffer_pool_manager_instance.cpp) and LRUReplacer       *)
(* (src/src/buffer/lru_replacer.cpp).                                      *)
(*                                                                         *)
(* One caller thread issues the public operations one after another; each  *)
(* action is one whole handler, from taking latch_ to releasing it.        *)
(***************************************************************************)
EXTENDS Integers, Sequences, FiniteSets, TLC

(* ------------------------------ bounds -------------------------------- *)
PoolSize == 2        \* pool_size: number of frames of the instance
MaxPages == 3        \* number of page ids of the instance's partition in play
MaxPin == 2          \* cap on a frame's pin_count_
MaxData == 1         \* page contents are 0..MaxData; 0 is the zeroed buffer
MaxInstances == 2    \* num_instances is drawn from 1..MaxInstances
MaxFreeExtra == 1    \* free_list_ is capped at PoolSize + MaxFreeExtra entries
NumPages == 3        \* capacity of the stand-alone replacer
MaxSteps == 8        \* length of the call sequences explored (Spec)
MaxFrameSteps == 7   \* length of the call sequences explored (SpecFrames)
MaxAllocSteps == 5   \* length of the call sequences explored (SpecAlloc)
MaxIOSteps == 5      \* length of the call sequences explored (SpecIO)
NumThreads == 2      \* threads calling the shared replacer (SpecConc)
MaxConcSteps == 6    \* number of steps the threads take in all (SpecConc)
MaxClock == 4        \* number of Unpin insertions the stand-alone replacer logs

(* ----------------------------- constants ------------------------------ *)
INVALID_PAGE_ID == -1
NoFrame == -1        \* frame_id_t frame_id before anything is stored in it

Frames == 0 .. (PoolSize - 1)
\* frame ids given to the stand-alone replacer: one more than its capacity
LRUFrames == 0 .. NumPages
Threads == 1 .. NumThreads
Data == 0 .. MaxData

Range(s) == {s[i] : i \in 1 .. Len(s)}

VARIABLES
  num_instances_,   \* federation cardinality
  instance_index_,  \* index of this instance
  next_page_id_,    \* allocator cursor
  pages_,           \* frame array: page_id_, pin_count_, is_dirty_, data_
  page_table_,      \* page id -> frame id
  free_list_,       \* list of free frame ids
  list_t_,          \* the replacer's list, least recently unpinned first
  size,             \* the replacer's capacity
  disk,             \* the disk manager's stored page contents
  latch_,           \* "free", or "held" by a caller that never returns
  last,             \* the last call: operation, arguments and result
  steps,            \* number of calls made so far
  limit,            \* number of calls the caller makes in all
  unflushed,        \* pages unpinned with is_dirty = true and not flushed, deleted or evicted since
  minted,           \* page ids returned by the successful NewPage calls
  stamp,            \* stand-alone replacer: time of the Unpin that inserted a member
  clock,            \* stand-alone replacer: number of logged insertions
  pc,               \* shared replacer: where each thread stands inside Victim
  iter,             \* shared replacer: the frame id each thread's Victim read at the head
  balance           \* shared replacer: per frame, insertions minus reported removals

vars == <<num_instances_, instance_index_, next_page_id_, pages_,
          page_table_, free_list_, list_t_, size, disk, latch_, last, minted,
          steps, limit, unflushed, stamp, clock, pc, iter, balance>>

instVars == <<num_instances_, instance_index_, next_page_id_, pages_,
              page_table_, free_list_, disk, latch_, minted>>

(* ids of this instance's partition that the callers use *)
OwnedIds(n, i) == {i + k * n : k \in 0 .. (MaxPages - 1)}
PageIds == OwnedIds(num_instances_, instance_index_)

(* ------------------------------ replacer ------------------------------ *)
\* mutant: the size is never computed
SizeZero(lt) == 0

\* LRUReplacer::Size
Size(lt) == Len(lt)

\* LRUReplacer::Victim: nothing if empty, else the head is returned and erased
Victim(lt) ==
  IF Size(lt) = 0
    THEN [ok |-> FALSE, frame_id |-> NoFrame, list |-> lt]
    ELSE [ok |-> TRUE, frame_id |-> Head(lt), list |-> Tail(lt)]

\* std::find: index of the first occurrence of f, 0 if there is none
Find(lt, f) ==
  IF f \in Range(lt) THEN CHOOSE i \in 1 .. Len(lt) :
                            /\ lt[i] = f
                            /\ \A j \in 1 .. (i - 1) : lt[j] # f
                     ELSE 0

\* LRUReplacer::Pin: erase the first occurrence of frame_id, if any
Pin(lt, f) ==
  LET i == Find(lt, f) IN
  IF i = 0 THEN lt
           ELSE SubSeq(lt, 1, i - 1) \o SubSeq(lt, i + 1, Len(lt))

\* mutant: a frame already present is moved to the back
UnpinMoveToBack(lt, f, cap) ==
  IF Len(SelectSeq(lt, LAMBDA x : x # f)) >= cap THEN lt
  ELSE Append(SelectSeq(lt, LAMBDA x : x # f), f)

\* mutant: the unpinned frame goes to the front of the list
UnpinFront(lt, f, cap) ==
  IF Cardinality({i \in 1 .. Len(lt) : lt[i] = f}) # 0 THEN lt
  ELSE IF Len(lt) >= cap THEN lt
  ELSE <<f>> \o lt

\* mutant: the capacity test is off by one
UnpinCapOffByOne(lt, f, cap) ==
  IF Cardinality({i \in 1 .. Len(lt) : lt[i] = f}) # 0 THEN lt
  ELSE IF Len(lt) >= cap - 1 THEN lt
  ELSE Append(lt, f)

\* LRUReplacer::Unpin: push_back unless already present or at capacity
Unpin(lt, f, cap) ==
  IF Cardinality({i \in 1 .. Len(lt) : lt[i] = f}) # 0 THEN lt
  ELSE IF Len(lt) >= cap THEN lt
  ELSE Append(lt, f)

(* ------------------------------ instance ------------------------------ *)
\* Page::ResetMemory: zero the data buffer
ResetMemory(pg) == [pg EXCEPT !.data_ = 0]

\* std::unordered_map::erase(key)
Erase(pt, p) == [q \in (DOMAIN pt) \ {p} |-> pt[q]]

\* std::unordered_map::insert: keeps the old entry when the key is present
Insert(pt, p, f) ==
  IF p \in DOMAIN pt THEN pt
  ELSE [q \in (DOMAIN pt) \cup {p} |-> IF q = p THEN f ELSE pt[q]]

\* mutant: the advanced cursor is returned
AllocatePageAfter(next, n) == [id |-> next + n, next |-> next + n]

\* AllocatePage: return the cursor and advance it by num_instances_
AllocatePage(next, n) == [id |-> next, next |-> next + n]

\* ValidatePageId's assertion
ValidatePageId(id, n, i) == id % n = i

\* mutant: the back of the free list is taken
FreeListBack(fl) == fl[Len(fl)]

\* the front of the free list (free_list_.begin())
FreeListFront(fl) == Head(fl)

\* mutant: the page is written but its dirty flag is left set
FlushPgKeepsDirty(pg, pt, dk, p) ==
  IF p \notin DOMAIN pt
    THEN [ret |-> FALSE, wrote |-> FALSE, pages |-> pg, disk |-> dk]
  ELSE LET f == pt[p] IN
    IF ~pg[f].is_dirty_
      THEN [ret |-> TRUE, wrote |-> FALSE, pages |-> pg, disk |-> dk]
      ELSE [ret |-> TRUE, wrote |-> TRUE, pages |-> pg,
            disk |-> [dk EXCEPT ![p] = pg[f].data_]]

\* body of FlushPgImp once the latch is held
FlushPg(pg, pt, dk, p) ==
  IF p \notin DOMAIN pt
    THEN [ret |-> FALSE, wrote |-> FALSE, pages |-> pg, disk |-> dk]
  ELSE LET f == pt[p] IN
    IF ~pg[f].is_dirty_
      THEN [ret |-> TRUE, wrote |-> FALSE, pages |-> pg, disk |-> dk]
      ELSE [ret |-> TRUE, wrote |-> TRUE,
            pages |-> [pg EXCEPT ![f].is_dirty_ = FALSE],
            disk |-> [dk EXCEPT ![p] = pg[f].data_]]

Call(op, pid, dirty, ret, frame, src) ==
  [op |-> op, pid |-> pid, dirty |-> dirty, ret |-> ret, frame |-> frame, src |-> src]

InitFor(n, i) ==
  /\ num_instances_ = n
  /\ instance_index_ = i
  /\ next_page_id_ = i
  /\ pages_ = [f \in Frames |-> [page_id_ |-> INVALID_PAGE_ID, pin_count_ |-> 0,
                                 is_dirty_ |-> FALSE, data_ |-> 0]]
  /\ page_table_ = <<>>
  /\ free_list_ = [k \in 1 .. PoolSize |-> k - 1]
  /\ list_t_ = <<>>
  /\ disk = [p \in OwnedIds(n, i) |-> 0]
  /\ latch_ = "free"
  /\ last = Call("none", INVALID_PAGE_ID, FALSE, "void", NoFrame, "none")
  /\ minted = <<>>
  /\ steps = 0
  /\ unflushed = {}
  /\ stamp = <<>>
  /\ clock = 0
  /\ pc = [t \in Threads |-> "idle"]
  /\ iter = [t \in Threads |-> NoFrame]
  /\ balance = [f \in LRUFrames |-> 0]

\* the constructor without federation arguments: one instance, index 0
Init ==
  /\ InitFor(1, 0)
  /\ size = PoolSize
  /\ limit = MaxSteps

InitFrames ==
  /\ InitFor(1, 0)
  /\ size = PoolSize
  /\ limit = MaxFrameSteps

\* the constructor of an instance of a federation
InitAlloc ==
  /\ \E n \in 1 .. MaxInstances : \E i \in 0 .. (n - 1) : InitFor(n, i)
  /\ size = PoolSize
  /\ limit = MaxAllocSteps

ghostLRU == <<stamp, clock, size, limit, pc, iter, balance>>

\* the holder of a pinned frame writes into its buffer
WriteData(f, v) ==
  /\ latch_ = "free"
  /\ steps < limit
  /\ steps' = steps + 1
  /\ pages_[f].pin_count_ > 0
  /\ pages_[f].data_ # v
  /\ pages_' = [pages_ EXCEPT ![f].data_ = v]
  /\ last' = Call("WriteData", pages_[f].page_id_, FALSE, "void", f, "none")
  /\ UNCHANGED <<num_instances_, instance_index_, next_page_id_,
                 page_table_, free_list_, list_t_, disk, latch_, minted, unflushed>>
  /\ UNCHANGED ghostLRU

\* FlushPgImp as a public call
FlushPgImp(p) ==
  /\ latch_ = "free"
  /\ steps < limit
  /\ steps' = steps + 1
  /\ LET r == FlushPg(pages_, page_table_, disk, p) IN
       /\ pages_' = r.pages
       /\ disk' = r.disk
       /\ last' = Call("FlushPage", p, FALSE, IF r.ret THEN "true" ELSE "false",
                       IF p \in DOMAIN page_table_ THEN page_table_[p] ELSE NoFrame,
                       IF r.wrote THEN "write" ELSE "none")
       /\ unflushed' = IF r.ret THEN unflushed \ {p} ELSE unflushed
  /\ UNCHANGED <<num_instances_, instance_index_, next_page_id_,
                 page_table_, free_list_, list_t_, latch_, minted>>
  /\ UNCHANGED ghostLRU

\* FlushAllPgsImp's loop over the page table, in the iteration order `order'
RECURSIVE FlushAll(_, _, _, _)
FlushAll(order, pg, pt, dk) ==
  IF order = <<>> THEN [pages |-> pg, disk |-> dk]
  ELSE LET p == Head(order)
           f == pt[p]
       IN IF ~pg[f].is_dirty_
            THEN FlushAll(Tail(order), pg, pt, dk)
            ELSE FlushAll(Tail(order), [pg EXCEPT ![f].is_dirty_ = FALSE], pt,
                          [dk EXCEPT ![p] = pg[f].data_])

\* the iteration orders of an unordered_map with key set S
Orders(S) ==
  {o \in [1 .. Cardinality(S) -> S] : \A i, j \in 1 .. Cardinality(S) : i # j => o[i] # o[j]}

FlushAllPgsImp ==
  /\ latch_ = "free"
  /\ steps < limit
  /\ steps' = steps + 1
  /\ \E order \in Orders(DOMAIN page_table_) :
       LET r == FlushAll(order, pages_, page_table_, disk) IN
         /\ pages_' = r.pages
         /\ disk' = r.disk
  /\ last' = Call("FlushAllPages", INVALID_PAGE_ID, FALSE, "void", NoFrame, "none")
  /\ unflushed' = unflushed \ DOMAIN page_table_
  /\ UNCHANGED <<num_instances_, instance_index_, next_page_id_,
                 page_table_, free_list_, list_t_, latch_, minted>>
  /\ UNCHANGED ghostLRU

\* NewPgImp / FetchPgImp, victim branch: write back if dirty, drop the old mapping.
\* Reached when the nested FlushPgImp got past the latch the caller already holds.
EvictVictim(f) ==
  LET r == IF pages_[f].is_dirty_
             THEN FlushPg(pages_, page_table_, disk, pages_[f].page_id_)
             ELSE [ret |-> TRUE, wrote |-> FALSE, pages |-> pages_, disk |-> disk]
  IN [pages |-> r.pages, disk |-> r.disk,
      table |-> Erase(page_table_, r.pages[f].page_id_)]

\* NewPgImp / FetchPgImp, victim branch on a dirty frame: the nested FlushPgImp
\* locks latch_, a non-recursive mutex its own thread holds, and never returns.
BlockedOnLatch(op, p, v) ==
  /\ pages_[v.frame_id].is_dirty_
  /\ list_t_' = v.list
  /\ latch_' = "held"
  /\ last' = Call(op, p, FALSE, "blocked", v.frame_id, "replacer")
  /\ UNCHANGED <<num_instances_, instance_index_, next_page_id_, pages_,
                 page_table_, free_list_, disk, minted, unflushed>>

\* the page ids the page table maps to frame f
HeldBy(f) == {q \in DOMAIN page_table_ : page_table_[q] = f}

\* NewPgImp from AllocatePage on, with frame f obtained
NewPgInstall(f, fl, lt, pg, pt, dk, src) ==
  LET a == AllocatePage(next_page_id_, num_instances_)
      page == [ResetMemory([pg[f] EXCEPT !.page_id_ = a.id])
                 EXCEPT !.pin_count_ = 1, !.is_dirty_ = FALSE]
  IN /\ ValidatePageId(a.id, num_instances_, instance_index_)
     /\ next_page_id_' = a.next
     /\ pages_' = [pg EXCEPT ![f] = page]
     /\ page_table_' = Insert(pt, page.page_id_, f)
     /\ free_list_' = fl
     /\ list_t_' = Pin(lt, f)
     /\ disk' = dk
     /\ minted' = Append(minted, a.id)
     /\ last' = Call("NewPage", a.id, FALSE, "page", f, src)
     /\ unflushed' = unflushed \ HeldBy(f)
     /\ UNCHANGED <<num_instances_, instance_index_, latch_>>

NewPgImp ==
  /\ latch_ = "free"
  /\ steps < limit
  /\ steps' = steps + 1
  /\ \/ /\ free_list_ = <<>> /\ Size(list_t_) = 0
        /\ last' = Call("NewPage", INVALID_PAGE_ID, FALSE, "null", NoFrame, "none")
        /\ UNCHANGED <<num_instances_, instance_index_, next_page_id_, pages_,
                       page_table_, free_list_, list_t_, disk, latch_, minted, unflushed>>
     \/ /\ free_list_ # <<>>
        /\ Len(minted) < MaxPages
        /\ NewPgInstall(FreeListFront(free_list_), Tail(free_list_), list_t_,
                        pages_, page_table_, disk, "free")
     \/ /\ free_list_ = <<>> /\ Size(list_t_) # 0
        /\ LET v == Victim(list_t_) IN
             \/ BlockedOnLatch("NewPage", INVALID_PAGE_ID, v)
             \/ /\ Len(minted) < MaxPages
                /\ LET e == EvictVictim(v.frame_id) IN
                     NewPgInstall(v.frame_id, free_list_, v.list,
                                  e.pages, e.table, e.disk, "replacer")
  /\ UNCHANGED ghostLRU

\* FetchPgImp from the assignment of page_id_ on, with frame f obtained
FetchPgInstall(p, f, fl, lt, pg, pt, dk, src) ==
  LET page == [pg[f] EXCEPT !.page_id_ = p, !.data_ = dk[p],
                            !.pin_count_ = 1, !.is_dirty_ = FALSE]
  IN /\ pages_' = [pg EXCEPT ![f] = page]
     /\ page_table_' = Insert(pt, page.page_id_, f)
     /\ free_list_' = fl
     /\ list_t_' = Pin(lt, f)
     /\ disk' = dk
     /\ last' = Call("FetchPage", p, FALSE, "page", f, src)
     /\ unflushed' = unflushed \ HeldBy(f)
     /\ UNCHANGED <<num_instances_, instance_index_, next_page_id_, latch_, minted>>

FetchPgImp(p) ==
  /\ latch_ = "free"
  /\ steps < limit
  /\ steps' = steps + 1
  /\ IF p \in DOMAIN page_table_
       THEN LET f == page_table_[p] IN
            /\ pages_[f].pin_count_ < MaxPin
            /\ pages_' = [pages_ EXCEPT ![f].pin_count_ = @ + 1]
            /\ list_t_' = Pin(list_t_, f)
            /\ last' = Call("FetchPage", p, FALSE, "page", f, "hit")
            /\ UNCHANGED <<num_instances_, instance_index_, next_page_id_,
                           page_table_, free_list_, disk, latch_, minted, unflushed>>
       ELSE
         \/ /\ free_list_ = <<>> /\ Size(list_t_) = 0
            /\ last' = Call("FetchPage", p, FALSE, "null", NoFrame, "none")
            /\ UNCHANGED <<num_instances_, instance_index_, next_page_id_, pages_,
                           page_table_, free_list_, list_t_, disk, latch_, minted, unflushed>>
         \/ /\ free_list_ # <<>>
            /\ FetchPgInstall(p, FreeListFront(free_list_), Tail(free_list_), list_t_,
                              pages_, page_table_, disk, "free")
         \/ /\ free_list_ = <<>> /\ Size(list_t_) # 0
            /\ LET v == Victim(list_t_) IN
                 \/ BlockedOnLatch("FetchPage", p, v)
                 \/ LET e == EvictVictim(v.frame_id) IN
                      FetchPgInstall(p, v.frame_id, free_list_, v.list,
                                     e.pages, e.table, e.disk, "replacer")
  /\ UNCHANGED ghostLRU

\* DiskManager::ReadPage can fail, and the failure leaves FetchPgImp as an exception
ReadPageMayFail == TRUE

\* FetchPgImp with frame f obtained, left by the exception out of ReadPage:
\* page_id_ is assigned, nothing else of the installation has run, and the
\* scoped lock on latch_ is released by the unwinding
FetchPgThrown(p, f, fl, lt, pg, pt, dk, src) ==
  /\ pages_' = [pg EXCEPT ![f].page_id_ = p]
  /\ page_table_' = pt
  /\ free_list_' = fl
  /\ list_t_' = lt
  /\ disk' = dk
  /\ last' = Call("FetchPage", p, FALSE, "error", f, src)
  /\ unflushed' = unflushed \ HeldBy(f)
  /\ UNCHANGED <<num_instances_, instance_index_, next_page_id_, latch_, minted>>

\* FetchPgImp of a non-resident page whose ReadPage fails
FetchPgImpReadFails(p) ==
  /\ ReadPageMayFail
  /\ latch_ = "free"
  /\ steps < limit
  /\ steps' = steps + 1
  /\ p \notin DOMAIN page_table_
  /\ \/ /\ free_list_ # <<>>
        /\ FetchPgThrown(p, FreeListFront(free_list_), Tail(free_list_), list_t_,
                         pages_, page_table_, disk, "free")
     \/ /\ free_list_ = <<>> /\ Size(list_t_) # 0
        /\ LET v == Victim(list_t_)
               e == EvictVictim(v.frame_id)
           IN FetchPgThrown(p, v.frame_id, free_list_, v.list,
                            e.pages, e.table, e.disk, "replacer")
  /\ UNCHANGED ghostLRU

DeletePgImp(p) ==
  /\ latch_ = "free"
  /\ steps < limit
  /\ steps' = steps + 1
  /\ IF p \notin DOMAIN page_table_
       THEN /\ last' = Call("DeletePage", p, FALSE, "true", NoFrame, "absent")
            /\ UNCHANGED <<pages_, page_table_, free_list_, list_t_, unflushed>>
     ELSE LET f == page_table_[p] IN
       IF pages_[f].pin_count_ # 0
         THEN /\ last' = Call("DeletePage", p, FALSE, "false", f, "pinned")
              /\ UNCHANGED <<pages_, page_table_, free_list_, list_t_, unflushed>>
         ELSE LET page == [ResetMemory([pages_[f] EXCEPT !.page_id_ = INVALID_PAGE_ID])
                             EXCEPT !.is_dirty_ = FALSE, !.pin_count_ = 0]
              IN /\ Len(free_list_) < PoolSize + MaxFreeExtra
                 /\ pages_' = [pages_ EXCEPT ![f] = page]
                 /\ page_table_' = Erase(page_table_, page.page_id_)
                 /\ free_list_' = Append(free_list_, f)
                 /\ list_t_' = Pin(list_t_, f)
                 /\ last' = Call("DeletePage", p, FALSE, "true", f, "deleted")
                 /\ unflushed' = unflushed \ {p}
  /\ UNCHANGED <<num_instances_, instance_index_, next_page_id_, disk, latch_, minted>>
  /\ UNCHANGED ghostLRU

\* mutant: the flag is overwritten by the argument
UnpinDirtyAssign(old, is_dirty) == is_dirty

\* UnpinPgImp: if (is_dirty) page->is_dirty_ = is_dirty
UnpinDirty(old, is_dirty) == IF is_dirty THEN is_dirty ELSE old

UnpinPgImp(p, is_dirty) ==
  /\ latch_ = "free"
  /\ steps < limit
  /\ steps' = steps + 1
  /\ IF p \notin DOMAIN page_table_
       THEN /\ last' = Call("UnpinPage", p, is_dirty, "false", NoFrame, "absent")
            /\ UNCHANGED <<pages_, list_t_, unflushed>>
     ELSE LET f == page_table_[p] IN
       IF pages_[f].pin_count_ = 0
         THEN /\ last' = Call("UnpinPage", p, is_dirty, "true", f, "unpinned")
              /\ UNCHANGED <<pages_, list_t_, unflushed>>
         ELSE LET page == [pages_[f] EXCEPT
                             !.is_dirty_ = UnpinDirty(@, is_dirty),
                             !.pin_count_ = @ - 1]
              IN /\ pages_' = [pages_ EXCEPT ![f] = page]
                 /\ list_t_' = IF page.pin_count_ = 0
                                 THEN Unpin(list_t_, f, size) ELSE list_t_
                 /\ last' = Call("UnpinPage", p, is_dirty, "true", f, "released")
                 /\ unflushed' = IF is_dirty THEN unflushed \cup {p} ELSE unflushed
  /\ UNCHANGED <<num_instances_, instance_index_, next_page_id_, page_table_,
                 free_list_, disk, latch_, minted>>
  /\ UNCHANGED ghostLRU

Next ==
  \/ \E f \in Frames : \E v \in Data : WriteData(f, v)
  \/ NewPgImp
  \/ \E p \in PageIds : FetchPgImp(p)
  \/ \E p \in PageIds : \E d \in BOOLEAN : UnpinPgImp(p, d)
  \/ \E p \in PageIds : FlushPgImp(p)
  \/ FlushAllPgsImp
  \/ \E p \in PageIds : DeletePgImp(p)

Spec == Init /\ [][Next]_vars

\* the calls that decide which page ids NewPage hands out, for every federation
NextAlloc ==
  \/ NewPgImp
  \/ \E p \in PageIds : FetchPgImp(p)
  \/ \E p \in PageIds : \E d \in BOOLEAN : UnpinPgImp(p, d)
  \/ \E p \in PageIds : DeletePgImp(p)

SpecAlloc == InitAlloc /\ [][NextAlloc]_vars

\* the calls that move frames and set or clear their flags; the buffers stay zeroed
NextFrames ==
  \/ NewPgImp
  \/ \E p \in PageIds : FetchPgImp(p)
  \/ \E p \in PageIds : \E d \in BOOLEAN : UnpinPgImp(p, d)
  \/ \E p \in PageIds : FlushPgImp(p)
  \/ FlushAllPgsImp
  \/ \E p \in PageIds : DeletePgImp(p)

SpecFrames == InitFrames /\ [][NextFrames]_vars

\* every call, with disk reads that can fail
InitIO ==
  /\ InitFor(1, 0)
  /\ size = PoolSize
  /\ limit = MaxIOSteps

NextIO ==
  \/ Next
  \/ \E p \in PageIds : FetchPgImpReadFails(p)

SpecIO == InitIO /\ [][NextIO]_vars

(* ---------------------- the replacer on its own ------------------------ *)
InitLRU ==
  /\ InitFor(1, 0)
  /\ size = NumPages
  /\ limit = 0

Restrict(fn, S) == [x \in S |-> fn[x]]

LRUVictim ==
  /\ LET v == Victim(list_t_) IN
       /\ list_t_' = v.list
       /\ last' = Call("Victim", INVALID_PAGE_ID, FALSE,
                       IF v.ok THEN "true" ELSE "false", v.frame_id, "none")
       /\ stamp' = Restrict(stamp, (DOMAIN stamp) \ {v.frame_id})
  /\ UNCHANGED <<clock, size, limit>>
  /\ UNCHANGED instVars
  /\ UNCHANGED <<steps, unflushed, pc, iter, balance>>

LRUPin(f) ==
  /\ list_t_' = Pin(list_t_, f)
  /\ last' = Call("Pin", INVALID_PAGE_ID, FALSE, "void", f, "none")
  /\ stamp' = Restrict(stamp, (DOMAIN stamp) \ {f})
  /\ UNCHANGED <<clock, size, limit>>
  /\ UNCHANGED instVars
  /\ UNCHANGED <<steps, unflushed, pc, iter, balance>>

LRUUnpin(f) ==
  /\ list_t_' = Unpin(list_t_, f, size)
  /\ last' = Call("Unpin", INVALID_PAGE_ID, FALSE, "void", f, "none")
  /\ IF f \notin Range(list_t_) /\ Len(list_t_) < size
       THEN /\ clock < MaxClock
            /\ clock' = clock + 1
            /\ stamp' = [x \in (DOMAIN stamp) \cup {f} |->
                           IF x = f THEN clock + 1 ELSE stamp[x]]
       ELSE UNCHANGED <<clock, stamp>>
  /\ UNCHANGED <<size, limit>>
  /\ UNCHANGED instVars
  /\ UNCHANGED <<steps, unflushed, pc, iter, balance>>

NextLRU ==
  \/ LRUVictim
  \/ \E f \in LRUFrames : LRUPin(f)
  \/ \E f \in LRUFrames : LRUUnpin(f)

SpecLRU == InitLRU /\ [][NextLRU]_vars

(* ------------------ the replacer shared by several threads -------------- *)
\* Pin, Unpin and Size run under mutex_ and are one step each. Victim holds
\* mutex_ only inside its call of Size; its read of the head and its erase are
\* separate unlocked steps that other threads' calls can come between.
InitConc ==
  /\ InitFor(1, 0)
  /\ size = NumPages
  /\ limit = MaxConcSteps

Running == \A t \in Threads : pc[t] # "crashed"

ConcStep ==
  /\ Running
  /\ steps < limit
  /\ steps' = steps + 1
  /\ UNCHANGED <<size, limit, stamp, clock, unflushed>>
  /\ UNCHANGED instVars

\* Victim, `if (this->Size() == 0) return false;'
CVictimSize(t) ==
  /\ ConcStep
  /\ pc[t] = "idle"
  /\ IF Size(list_t_) = 0
       THEN /\ last' = Call("Victim", INVALID_PAGE_ID, FALSE, "false", NoFrame, "none")
            /\ pc' = pc
       ELSE /\ last' = last
            /\ pc' = [pc EXCEPT ![t] = "read"]
  /\ UNCHANGED <<list_t_, iter, balance>>

\* Victim, `auto iter = list_t_.begin(); *frame_id = *iter;' without mutex_.
\* On a list emptied in the meantime begin() is end() and the value read is
\* whatever the sentinel holds.
CVictimRead(t) ==
  /\ ConcStep
  /\ pc[t] = "read"
  /\ IF list_t_ # <<>>
       THEN iter' = [iter EXCEPT ![t] = Head(list_t_)]
       ELSE \E g \in LRUFrames : iter' = [iter EXCEPT ![t] = g]
  /\ pc' = [pc EXCEPT ![t] = "erase"]
  /\ UNCHANGED <<list_t_, last, balance>>

\* Victim, `list_t_.erase(iter); return true;' without mutex_. Erasing a node
\* that is no longer in the list frees it a second time: the process aborts,
\* or goes on with the list as it was.
CVictimErase(t) ==
  /\ ConcStep
  /\ pc[t] = "erase"
  /\ IF iter[t] \in Range(list_t_)
       THEN /\ list_t_' = SelectSeq(list_t_, LAMBDA x : x # iter[t])
            /\ pc' = [pc EXCEPT ![t] = "idle"]
            /\ last' = Call("Victim", INVALID_PAGE_ID, FALSE, "true", iter[t], "head")
            /\ balance' = [balance EXCEPT ![iter[t]] = @ - 1]
       ELSE /\ list_t_' = list_t_
            /\ \/ /\ pc' = [pc EXCEPT ![t] = "crashed"]
                  /\ last' = Call("Victim", INVALID_PAGE_ID, FALSE, "crashed", iter[t], "stale")
                  /\ balance' = balance
               \/ /\ pc' = [pc EXCEPT ![t] = "idle"]
                  /\ last' = Call("Victim", INVALID_PAGE_ID, FALSE, "true", iter[t], "stale")
                  /\ balance' = [balance EXCEPT ![iter[t]] = @ - 1]
  /\ iter' = [iter EXCEPT ![t] = NoFrame]

CPin(t, f) ==
  /\ ConcStep
  /\ pc[t] = "idle"
  /\ list_t_' = Pin(list_t_, f)
  /\ last' = Call("Pin", INVALID_PAGE_ID, FALSE, "void", f, "none")
  /\ balance' = IF f \in Range(list_t_) THEN [balance EXCEPT ![f] = @ - 1] ELSE balance
  /\ UNCHANGED <<pc, iter>>

CUnpin(t, f) ==
  /\ ConcStep
  /\ pc[t] = "idle"
  /\ list_t_' = Unpin(list_t_, f, size)
  /\ last' = Call("Unpin", INVALID_PAGE_ID, FALSE, "void", f, "none")
  /\ balance' = IF list_t_' # list_t_ THEN [balance EXCEPT ![f] = @ + 1] ELSE balance
  /\ UNCHANGED <<pc, iter>>

NextConc ==
  \/ \E t \in Threads : CVictimSize(t)
  \/ \E t \in Threads : CVictimRead(t)
  \/ \E t \in Threads : CVictimErase(t)
  \/ \E t \in Threads : \E f \in LRUFrames : CPin(t, f)
  \/ \E t \in Threads : \E f \in LRUFrames : CUnpin(t, f)

SpecConc == InitConc /\ [][NextConc]_vars

(* ------------------------------- claims -------------------------------- *)
\* a NewPage or FetchPage call of this step that had to obtain a frame
ObtainedFrame(c) ==
  /\ c.op \in {"NewPage", "FetchPage"}
  /\ c.ret = "page"
  /\ c.src \in {"free", "replacer"}

\* C1: pin safety. A frame whose pin_count is greater than 0 is in neither the
\* free list nor the Replacer, so it is never chosen for reuse.
C1_PinSafety ==
  \A f \in Frames :
    pages_[f].pin_count_ > 0 => f \notin Range(free_list_) /\ f \notin Range(list_t_)

\* C2: after DeletePage(p) on a resident page with pin_count 0 returned true,
\* p is no longer in the page table.
C2_DeleteRemovesMapping ==
  (last.op = "DeletePage" /\ last.src = "deleted" /\ last.ret = "true")
    => last.pid \notin DOMAIN page_table_

\* C3: every public operation returns and releases the latch: between calls
\* the latch is free and no call is blocked.
C3_OperationsReturn ==
  latch_ = "free" /\ last.ret # "blocked"

\* C4: the page table and the frame metadata agree: every entry (page_id, frame_id)
\* of the page table has pages_[frame_id].page_id_ = page_id.
C4_TableAgreesWithFrames ==
  \A p \in DOMAIN page_table_ : pages_[page_table_[p]].page_id_ = p

\* C5: dirty durability. When a page that was unpinned with is_dirty = true is
\* flushed (FlushPage, FlushAllPages) or its frame is reused by NewPage/FetchPage,
\* the disk content under the page's id equals the bytes the frame held.
C5_DirtyDurability ==
  [][\A p \in unflushed :
       (/\ p \in DOMAIN page_table_
        /\ \/ last'.op = "FlushPage" /\ last'.pid = p /\ last'.ret = "true"
           \/ last'.op = "FlushAllPages"
           \/ ObtainedFrame(last') /\ last'.frame = page_table_[p])
       => disk'[p] = pages_[page_table_[p]].data_]_vars

\* C6: partitioned allocation. The k-th successful NewPage (k = 0, 1, ...) returns
\* instance_index + k * num_instances: ids are in the instance's partition,
\* strictly increasing and never repeated.
C6_PartitionedAllocation ==
  /\ \A k \in 1 .. Len(minted) :
       /\ minted[k] = instance_index_ + (k - 1) * num_instances_
       /\ minted[k] % num_instances_ = instance_index_
  /\ \A j, k \in 1 .. Len(minted) : j < k => minted[j] < minted[k]
  /\ (last.op = "NewPage" /\ last.ret = "page") => last.pid = minted[Len(minted)]

C6_Witness ==
  /\ Len(minted) = MaxPages
  /\ num_instances_ = 2
  /\ instance_index_ = 1
  /\ last.op = "NewPage" /\ last.ret = "page" /\ last.src = "replacer"

\* the step wrote frame f's page back: FlushPage of a page held in f, FlushAllPages,
\* or the FlushPgImp(q) that NewPage/FetchPage call for a dirty victim with page id q
FlushedNow(f) ==
  \/ last'.op = "FlushPage" /\ last'.ret = "true" /\ last'.frame = f
  \/ last'.op = "FlushAllPages" /\ \E q \in DOMAIN page_table_ : page_table_[q] = f
  \/ /\ ObtainedFrame(last') /\ last'.src = "replacer"
     /\ pages_[last'.frame].is_dirty_
     /\ \E q \in DOMAIN page_table_ :
          q = pages_[last'.frame].page_id_ /\ page_table_[q] = f /\ disk'[q] = pages_[f].data_

\* the step gave frame f to another page
ReusedNow(f) == ObtainedFrame(last') /\ last'.frame = f

\* the step deleted the page held in frame f
DeletedNow(f) ==
  last'.op = "DeletePage" /\ last'.ret = "true" /\ last'.src = "deleted" /\ last'.frame = f

\* C7 as stated: a set dirty flag is cleared only when the page is flushed or the
\* frame is reused for a different page.
C7_DirtyClearedOnlyByFlushOrReuse ==
  [][\A f \in Frames :
       (pages_[f].is_dirty_ /\ ~pages_'[f].is_dirty_) => (FlushedNow(f) \/ ReusedNow(f))]_vars

\* C7 amended: a set dirty flag stays set across FetchPage hits and
\* UnpinPage(p, false), and is cleared only when the page is flushed, the page is
\* deleted by DeletePage, or the frame is reused for a different page.
C7_DirtySticky ==
  [][\A f \in Frames :
       (pages_[f].is_dirty_ /\ ~pages_'[f].is_dirty_)
         => (FlushedNow(f) \/ ReusedNow(f) \/ DeletedNow(f))]_vars

C7_Witness ==
  /\ last.op = "UnpinPage" /\ ~last.dirty /\ last.src = "released"
  /\ pages_[last.frame].is_dirty_
  /\ last.pid \in unflushed

\* the instance's state that DeletePage may change
Core == <<pages_, page_table_, free_list_, list_t_>>

\* C8: DeletePage(p) on an id not in the page table returns true, on a resident id
\* with pin_count > 0 returns false, and in both cases changes nothing; so does a
\* second DeletePage(p) issued after a first DeletePage(p) returned true.
C8_DeleteIdempotent ==
  [][last'.op = "DeletePage" =>
       LET p == last'.pid IN
         /\ p \notin DOMAIN page_table_ => (last'.ret = "true" /\ UNCHANGED Core)
         /\ (p \in DOMAIN page_table_ /\ pages_[page_table_[p]].pin_count_ > 0)
              => (last'.ret = "false" /\ UNCHANGED Core)
         /\ (last.op = "DeletePage" /\ last.pid = p /\ last.ret = "true")
              => (last'.ret = "true" /\ UNCHANGED Core)]_vars

\* the members of list lt are in the order of the Unpin calls that inserted them
OlderFirst(lt, st) ==
  \A i, j \in 1 .. Len(lt) : i < j => st[lt[i]] < st[lt[j]]

\* lt without f, the order of the others kept
Without(lt, f) == SelectSeq(lt, LAMBDA x : x # f)

\* C9: Replacer LRU order. Victim returns the member whose Unpin is the oldest
\* and nothing on an empty set; Pin(f) removes only f and keeps the order of the
\* others; Unpin(f) of a member does not move it; the list is always in the
\* order of the inserting Unpin calls.
C9_LRUOrder ==
  [][/\ last'.op = "Victim" =>
          IF list_t_ = <<>>
            THEN last'.ret = "false" /\ list_t_' = list_t_
            ELSE /\ last'.ret = "true"
                 /\ last'.frame \in Range(list_t_)
                 /\ \A g \in Range(list_t_) : stamp[last'.frame] <= stamp[g]
                 /\ list_t_' = Without(list_t_, last'.frame)
     /\ last'.op = "Pin" => list_t_' = Without(list_t_, last'.frame)
     /\ (last'.op = "Unpin" /\ last'.frame \in Range(list_t_)) => list_t_' = list_t_
     /\ (last'.op = "Unpin" /\ last'.frame \notin Range(list_t_) /\ Len(list_t_) < size)
          => list_t_' = Append(list_t_, last'.frame)
     /\ Range(list_t_') = DOMAIN stamp'
     /\ OlderFirst(list_t_', stamp')]_vars

C9_Witness ==
  /\ last.op = "Victim" /\ last.ret = "true"
  /\ Len(list_t_) = 2
  /\ clock = MaxClock
  /\ \E g \in Range(list_t_) : g < last.frame

\* C10: free-list priority. In a NewPage or a FetchPage miss with a non-empty free
\* list the frame is the front of the free list and no other frame leaves the
\* Replacer; a Replacer member is victimized only when the free list is empty.
C10_FreeListPriority ==
  [][(last'.op \in {"NewPage", "FetchPage"} /\ last'.src # "hit" /\ free_list_ # <<>>)
        => /\ last'.ret = "page"
           /\ last'.frame = Head(free_list_)
           /\ free_list_' = Tail(free_list_)
           /\ pages_'[Head(free_list_)].page_id_ = last'.pid
           /\ Range(list_t_) \ {Head(free_list_)} \subseteq Range(list_t_')]_vars

C10_Witness ==
  /\ ObtainedFrame(last) /\ last.src = "free"
  /\ list_t_ # <<>>
  /\ last.frame \notin Range(list_t_)

\* the instance's bookkeeping that a failed NewPage/FetchPage must leave alone
Bookkeeping == <<pages_, page_table_, free_list_, list_t_, next_page_id_>>

\* C11: exhaustion. NewPage, and FetchPage of a non-resident page, return none
\* exactly when the free list and the Replacer are both empty, and then the page
\* table, free list, Replacer, frame metadata and allocator cursor are unchanged.
C11_Exhaustion ==
  [][(last'.op \in {"NewPage", "FetchPage"} /\ last'.src # "hit")
        => /\ (last'.ret = "null") <=> (free_list_ = <<>> /\ list_t_ = <<>>)
           /\ last'.ret = "null" => UNCHANGED Bookkeeping]_vars

C11_Witness ==
  /\ last.op = "NewPage" /\ last.ret = "null"
  /\ Len(minted) = PoolSize
  /\ next_page_id_ = PoolSize
  /\ \A f \in Frames : pages_[f].pin_count_ > 0

\* C12: failed read. When ReadPage fails during FetchPage of a non-resident page,
\* on return the chosen frame is back in the free list or back in the Replacer
\* with its previous mapping intact, and the requested page id is not in the
\* page table.
C12_FailedReadRestoresFrame ==
  (last.op = "FetchPage" /\ last.ret = "error")
    => /\ last.pid \notin DOMAIN page_table_
       /\ \/ last.src = "free" /\ last.frame \in Range(free_list_)
          \/ /\ last.src = "replacer" /\ last.frame \in Range(list_t_)
             /\ \E q \in DOMAIN page_table_ :
                  page_table_[q] = last.frame /\ pages_[last.frame].page_id_ = q

\* C13: the Replacer is linearizable under concurrent Victim, Pin, Unpin and Size.
\* In particular every frame a Victim returns was in the list when Victim removed
\* it: no Victim erases from an emptied list or returns a frame that another call
\* has already removed, so no frame is reported removed more often than inserted.
C13_VictimAtomic ==
  /\ last.op = "Victim" => (last.ret # "crashed" /\ last.src # "stale")
  /\ \A f \in LRUFrames : balance[f] >= 0

\* C14: pin_count never becomes negative. UnpinPage(p, d) on a resident page with
\* pin_count 0 returns true and changes nothing (pin count, dirty flag, Replacer);
\* on a non-resident page it returns false and changes nothing; otherwise it
\* lowers pin_count by exactly 1, and the frame is appended to the Replacer as
\* most recent exactly when the count reaches 0.
C14_UnpinNeverNegative ==
  [][/\ \A f \in Frames : pages_'[f].pin_count_ >= 0
     /\ last'.op = "UnpinPage" =>
          /\ UNCHANGED <<page_table_, free_list_, next_page_id_>>
          /\ IF last'.pid \notin DOMAIN page_table_
               THEN last'.ret = "false" /\ UNCHANGED <<pages_, list_t_>>
             ELSE LET f == page_table_[last'.pid] IN
               /\ last'.ret = "true"
               /\ \A g \in Frames \ {f} : pages_'[g] = pages_[g]
               /\ IF pages_[f].pin_count_ = 0
                    THEN UNCHANGED <<pages_, list_t_>>
                  ELSE /\ pages_'[f].pin_count_ = pages_[f].pin_count_ - 1
                       /\ IF pages_'[f].pin_count_ = 0
                            THEN list_t_' = Append(list_t_, f)
                            ELSE list_t_' = list_t_]_vars

C14_Witness ==
  /\ last.op = "UnpinPage" /\ last.src = "released"
  /\ pages_[last.frame].pin_count_ = 0
  /\ Len(list_t_) = 2
  /\ list_t_[2] = last.frame

\* C15: FlushPage(p) returns false and changes nothing when p is not resident.
\* When p is resident it returns true, writes the frame's bytes under p exactly
\* once if the frame is dirty and not at all if it is clean, clears the dirty
\* flag, and leaves pin_count, page table, free list and Replacer unchanged.
C15_FlushPage ==
  [][last'.op = "FlushPage" =>
       /\ UNCHANGED <<page_table_, free_list_, list_t_, next_page_id_>>
       /\ IF last'.pid \notin DOMAIN page_table_
            THEN last'.ret = "false" /\ UNCHANGED <<pages_, disk>>
          ELSE LET p == last'.pid
                   f == page_table_[p]
               IN /\ last'.ret = "true"
                  /\ pages_' = [pages_ EXCEPT ![f].is_dirty_ = FALSE]
                  /\ IF pages_[f].is_dirty_
                       THEN /\ last'.src = "write"
                            /\ disk' = [disk EXCEPT ![p] = pages_[f].data_]
                       ELSE /\ last'.src = "none"
                            /\ disk' = disk]_vars

\* a dirty page with new bytes was written by FlushPage and is clean now
C15_Witness ==
  /\ last.op = "FlushPage" /\ last.ret = "true" /\ last.src = "write"
  /\ ~pages_[last.frame].is_dirty_
  /\ pages_[last.frame].data_ # 0
  /\ disk[last.pid] = pages_[last.frame].data_

\* the frames the page table maps some page id to
Mapped == {page_table_[q] : q \in DOMAIN page_table_}

\* C16: every frame id of the pool is in exactly one of the free list and the
\* range of the page table.
C16_FramePartition ==
  latch_ = "free" =>
    \A f \in Frames : (f \in Range(free_list_)) # (f \in Mapped)

\* C17: the page table is injective (no two page ids map to one frame) and it
\* never has more than pool_size entries.
C17_TableInjective ==
  /\ \A p, q \in DOMAIN page_table_ : page_table_[p] = page_table_[q] => p = q
  /\ Cardinality(DOMAIN page_table_) <= PoolSize

\* C18: every frame id in the Replacer has pin_count 0 and is the target of some
\* page-table entry; the Replacer never holds more than pool_size frame ids.
C18_ReplacerMembers ==
  /\ \A f \in Range(list_t_) : pages_[f].pin_count_ = 0 /\ f \in Mapped
  /\ Len(list_t_) <= PoolSize

\* C19: the free list holds each frame id at most once and never more than
\* pool_size ids, so two successive NewPage/FetchPage calls never get the same
\* frame from it, repeated DeletePage calls on one id included.
C19_FreeListNoDuplicates ==
  /\ \A i, j \in 1 .. Len(free_list_) : free_list_[i] = free_list_[j] => i = j
  /\ Len(free_list_) <= PoolSize

====
